---- MODULE Spec2Model ----
(***************************************************************************)
(* Cart / order reconciliation of e-shop-central.                          *)
(*                                                                         *)
(* The record store (carts, orders, profiles, products, inventory) is one  *)
(* shared state; every request to it is atomic, and a handler is a         *)
(* sequence of such requests with other handlers running in between.       *)
(* One customer is modelled, using the shop from several browser tabs,     *)
(* and one vendor.  The store keeps at most one cart row per user (the     *)
(* handlers read it with .single()), at most one profile row per user and  *)
(* at most one inventory row per product.                                  *)
(*                                                                         *)
(* Money is counted in cents: a price of 19.99 is 1999, and Math.floor of  *)
(* an amount is the integer division of its cents by 100.                  *)
(***************************************************************************)
EXTENDS Integers, Sequences, FiniteSets, TLC

\* ------------------------------------------------------------------ bounds

\* Largest quantity a handler is started for (add-to-cart, the + button).
MaxQuantity == 2
\* Largest number of order records a checkout is started for.
MaxOrders == 2
\* Largest number of record-store requests that fail in one behaviour.
MaxFaults == 1
\* Largest stock value the vendor types into the stock field.
MaxStock == 2
\* Largest number of reviews rows a review is submitted for.
MaxReviews == 3

\* ------------------------------------------------------------ the catalogue

Tabs == {1, 2}
Products == {"A", "B", "C"}
\* products.price, in cents
Price == [A |-> 1999, B |-> 1000, C |-> 250]
\* products.stock when the shop opens
InitialStock == [A |-> 2, B |-> 1, C |-> 1]
\* What parseInt(e.target.value) || 0 can yield for the typed stock values.
StockInputs == (0 - 1) .. MaxStock

\* The stars of the review form: onRate(i + 1) for i in 0..4.
Ratings == 1..5

Name(p) == "name_" \o p
Image(p) == "image_" \o p

VARIABLES
    \* identity provider
    registered,     \* the customer's account exists
    session,        \* supabase.auth.getUser() returns the customer
    \* record store
    cart,           \* carts row of the customer: [exists, products]
    stock,          \* products.stock, per product
    inventory,      \* inventory row per product: [exists, stock]
    profile,        \* profiles row of the customer: [exists, loyalty_points]
    orders,         \* orders rows, in creation order
    wishlist,       \* wishlists rows of the customer: the product ids
    reviews,        \* reviews rows, in creation order
    \* one browser tab
    pc,             \* where the tab's running handler is suspended
    page,           \* the page the tab shows
    user,           \* the page's user state is set (Cart, Checkout)
    cartItems,      \* the page's cartItems state (Cart, Checkout)
    inStock,        \* the products the page lists with stock !== 0
    pageReviews,    \* the page's reviews state (ProductDetail)
    product,        \* handleAddToCart: the product being added
    existingProducts, \* handleAddToCart: cart.products as held by the handler
    updatedProducts,  \* handleAddToCart / updateCartInDatabase: list to write
    currentPoints,  \* handleSubmit: profile?.loyalty_points || 0
    idx,            \* handleSubmit: position of the stock loop (1-based)
    newStock,       \* handleSubmit: Math.max(0, product.stock - item.quantity)
    toasts,         \* notifications shown by the step just taken
    \* vendor page
    vpc, vProductId, vNewStock,
    \* bookkeeping of the check
    faults,         \* record-store requests that have failed so far
    run,            \* [id, n]: the stored cart was built from empty by n
                    \* successful adds of product id and nothing else
                    \* (NoRun once it is cleared or otherwise written)
    before          \* per tab: loyalty points, stock and run when the
                    \* handleSubmit that is running, or ended with the step
                    \* just taken, began

idVars == <<registered, session>>
storeVars == <<cart, stock, inventory, profile, orders>>
addVars == <<product, existingProducts, updatedProducts>>
submitVars == <<currentPoints, idx, newStock>>
pageVars == <<page, user, cartItems, inStock>>
socialVars == <<wishlist, reviews, pageReviews>>
vendorVars == <<vpc, vProductId, vNewStock>>
ghostVars == <<run, before>>
vars == <<idVars, storeVars, socialVars, pc, pageVars, addVars, submitVars, toasts,
          vendorVars, faults, ghostVars>>

\* ------------------------------------------------------------- pure helpers

\* Array.prototype.findIndex: 0-based index of the first match, or -1.
findIndex(items, id) ==
    IF \E i \in 1..Len(items) : items[i].id = id
    THEN (CHOOSE i \in 1..Len(items) :
            /\ items[i].id = id
            /\ \A j \in 1..(i - 1) : items[j].id # id) - 1
    ELSE 0 - 1

newCartItem(p) ==
    [id |-> p, name |-> Name(p), price |-> Price[p], image |-> Image(p),
     quantity |-> 1]

\* A merge that never looks for the product.
mergeItemAppend(existing, p) == Append(existing, newCartItem(p))

\* A merge that re-inserts the incremented entry at the end.
mergeItemMoveLast(existing, p) ==
    LET i == findIndex(existing, p) IN
    IF i >= 0
    THEN Append(SubSeq(existing, 1, i) \o SubSeq(existing, i + 2, Len(existing)),
                [existing[i + 1] EXCEPT !.quantity = @ + 1])
    ELSE Append(existing, newCartItem(p))

\* A merge that puts a new entry first.
mergeItemPrepend(existing, p) ==
    LET i == findIndex(existing, p) IN
    IF i >= 0
    THEN [existing EXCEPT ![i + 1].quantity = @ + 1]
    ELSE <<newCartItem(p)>> \o existing

\* A merge that leaves a found entry as it is.
mergeItemKeep(existing, p) ==
    IF findIndex(existing, p) >= 0 THEN existing
    ELSE Append(existing, newCartItem(p))

\* updatedProducts of handleAddToCart.
mergeItem(existing, p) ==
    LET existingProductIndex == findIndex(existing, p) IN
    IF existingProductIndex >= 0
    THEN [existing EXCEPT ![existingProductIndex + 1].quantity = @ + 1]
    ELSE Append(existing, newCartItem(p))

\* existingProducts after handleAddToCart computed updatedProducts: the
\* spread copies the array, not its item objects, so the increment is seen
\* through both.
mergeAlias(existing, p) ==
    LET existingProductIndex == findIndex(existing, p) IN
    IF existingProductIndex >= 0
    THEN [existing EXCEPT ![existingProductIndex + 1].quantity = @ + 1]
    ELSE existing

RECURSIVE SumPrices(_)
SumPrices(items) ==
    IF items = <<>> THEN 0
    ELSE SumPrices(SubSeq(items, 1, Len(items) - 1))
           + items[Len(items)].price * items[Len(items)].quantity

\* A total rounded to whole currency units.
getTotalPriceRounded(items) == ((SumPrices(items) + 50) \div 100) * 100

\* cartItems.reduce((total, item) => total + item.price * item.quantity, 0)
getTotalPrice(items) == SumPrices(items)

\* Math.round in place of Math.floor.
MathRound(cents) == (cents + 50) \div 100

\* Math.floor of an amount held in cents.
MathFloor(cents) == cents \div 100

\* The difference without Math.max.
clampStockNone(current, quantity) == current - quantity

\* Math.max(0, product.stock - item.quantity)
clampStock(current, quantity) ==
    IF current - quantity > 0 THEN current - quantity ELSE 0

\* cartItems.map(item => item.id === itemId ? {...item, quantity} : item)
setQuantity(items, itemId, newQuantity) ==
    [i \in 1..Len(items) |->
        IF items[i].id = itemId
        THEN [items[i] EXCEPT !.quantity = newQuantity]
        ELSE items[i]]

\* A removal that moves the last entry into the freed place.
filterOutSwap(items, itemId) ==
    IF findIndex(items, itemId) < 0 THEN items
    ELSE LET i == findIndex(items, itemId) + 1 IN
         SubSeq([items EXCEPT ![i] = items[Len(items)]], 1, Len(items) - 1)

RECURSIVE filterOut(_, _)
\* cartItems.filter(item => item.id !== itemId)
filterOut(items, itemId) ==
    IF items = <<>> THEN <<>>
    ELSE LET rest == filterOut(SubSeq(items, 1, Len(items) - 1), itemId)
             last == items[Len(items)]
         IN IF last.id # itemId THEN Append(rest, last) ELSE rest

RECURSIVE SumRatings(_)
\* reviews.reduce((sum, review) => sum + review.rating, 0)
SumRatings(rs) ==
    IF rs = <<>> THEN 0
    ELSE SumRatings(SubSeq(rs, 1, Len(rs) - 1)) + rs[Len(rs)].rating

\* The quotient without the test for an empty list.
averageRatingUnguarded(rs) == [num |-> SumRatings(rs), den |-> Len(rs)]

\* reviews.length > 0 ? reviews.reduce(...) / reviews.length : 0.  The
\* JavaScript number is held as the fraction num / den.
averageRating(rs) ==
    IF Len(rs) > 0 THEN [num |-> SumRatings(rs), den |-> Len(rs)]
    ELSE [num |-> 0, den |-> 1]

\* No error code is ignored.
ignoredNone(code) == FALSE

\* error.code !== '23505' lets the duplicate key error pass.
ignored(code) == code = "23505"

\* toast({title, description}); points is the number the description shows.
Toast(title, points) == [title |-> title, points |-> points]

NoRun == [id |-> "none", n |-> 0]

NoBefore ==
    [loyalty_points |-> 0, stock |-> [p \in Products |-> 0], run |-> NoRun,
     orders |-> 0]

NoCart == [exists |-> FALSE, products |-> <<>>]
NoProfile == [exists |-> FALSE, loyalty_points |-> 0]
NoInventory == [exists |-> FALSE, stock |-> 0]

SubmitPcs == {"submit_profile_select", "submit_profile_update",
              "submit_stock_select", "submit_stock_update",
              "submit_inventory_update", "submit_clear"}

\* The snapshot of a tab lasts as long as its handleSubmit runs.
keepBefore ==
    before' = [t \in Tabs |-> IF pc[t] \in SubmitPcs THEN before[t] ELSE NoBefore]

\* A record-store request may fail while the budget lasts.
CanFail == faults < MaxFaults

\* --------------------------------------------------------------------- Init

Init ==
    /\ registered = FALSE
    /\ session = FALSE
    /\ cart = NoCart
    /\ stock = [p \in Products |-> InitialStock[p]]
    /\ inventory = [p \in Products |-> [exists |-> TRUE, stock |-> InitialStock[p]]]
    /\ profile = NoProfile
    /\ orders = <<>>
    /\ pc = [t \in Tabs |-> "idle"]
    /\ page = [t \in Tabs |-> "browse"]
    /\ user = [t \in Tabs |-> FALSE]
    /\ cartItems = [t \in Tabs |-> <<>>]
    /\ inStock = [t \in Tabs |-> {p \in Products : InitialStock[p] # 0}]
    /\ wishlist = {}
    /\ reviews = <<>>
    /\ pageReviews = [t \in Tabs |-> <<>>]
    /\ product = [t \in Tabs |-> "A"]
    /\ existingProducts = [t \in Tabs |-> <<>>]
    /\ updatedProducts = [t \in Tabs |-> <<>>]
    /\ currentPoints = [t \in Tabs |-> 0]
    /\ idx = [t \in Tabs |-> 0]
    /\ newStock = [t \in Tabs |-> 0]
    /\ toasts = {}
    /\ vpc = "idle"
    /\ vProductId = "A"
    /\ vNewStock = 0
    /\ faults = 0
    /\ run = NoRun
    /\ before = [t \in Tabs |-> NoBefore]

\* ------------------------------------------------------- identity provider

\* Auth.handleSignUp: supabase.auth.signUp, then the profiles insert whose
\* error is only logged.  A second sign-up of the account fails in signUp.
handleSignUp ==
    /\ ~session
    /\ ~registered
    /\ registered' = TRUE
    /\ session' = TRUE
    /\ \/ /\ profile' = IF profile.exists THEN profile
                        ELSE [exists |-> TRUE, loyalty_points |-> 0]
          /\ UNCHANGED faults
       \/ /\ CanFail
          /\ faults' = faults + 1
          /\ UNCHANGED profile
    /\ toasts' = {}
    /\ UNCHANGED <<cart, stock, inventory, orders, socialVars, pc, pageVars,
                   addVars, submitVars, vendorVars>>
    /\ UNCHANGED run
    /\ keepBefore

\* Auth.handleSignIn
handleSignIn ==
    /\ registered
    /\ ~session
    /\ session' = TRUE
    /\ toasts' = {}
    /\ UNCHANGED <<registered, socialVars, storeVars, pc, pageVars, addVars, submitVars,
                   vendorVars, faults>>
    /\ UNCHANGED run
    /\ keepBefore

\* What a product page fetches when it is mounted: the products whose Add to
\* Cart button is not disabled by product.stock === 0.
fetchProducts == {p \in Products : stock[p] # 0}

\* Header.handleSignOut in tab t: signOut, then navigate('/').  It is taken
\* in a tab that runs no handler; for a handler that is suspended the session
\* ends by the sign-out of another tab.
handleSignOut(t) ==
    /\ session
    /\ pc[t] = "idle"
    /\ session' = FALSE
    /\ page' = [page EXCEPT ![t] = "browse"]
    /\ user' = [user EXCEPT ![t] = FALSE]
    /\ cartItems' = [cartItems EXCEPT ![t] = <<>>]
    /\ inStock' = [inStock EXCEPT ![t] =
                      IF page[t] = "browse" THEN @ ELSE fetchProducts]
    /\ toasts' = {}
    /\ UNCHANGED <<registered, socialVars, storeVars, pc, addVars, submitVars,
                   vendorVars, faults>>
    /\ UNCHANGED run
    /\ keepBefore

\* A tab leaves the cart or checkout page for a page that holds no cart state
\* (catalogue, product detail, wishlist, orders, profile).
navigate(t) ==
    /\ pc[t] = "idle"
    /\ page[t] # "browse"
    /\ page' = [page EXCEPT ![t] = "browse"]
    /\ inStock' = [inStock EXCEPT ![t] = fetchProducts]
    /\ user' = [user EXCEPT ![t] = FALSE]
    /\ cartItems' = [cartItems EXCEPT ![t] = <<>>]
    /\ toasts' = {}
    /\ UNCHANGED <<idVars, socialVars, storeVars, pc, addVars, submitVars, vendorVars, faults>>
    /\ UNCHANGED run
    /\ keepBefore

\* -------------------------------------------------------------- add to cart

\* The Add to Cart button: disabled={product.stock === 0 || isLoading}, with
\* the stock the page fetched when it was mounted.
addEnabled(t, p) == p \in inStock[t]

quantityOf(items, id) ==
    IF findIndex(items, id) >= 0 THEN items[findIndex(items, id) + 1].quantity
    ELSE 0

\* The handler leaves with a notification.
addDone(t, toast) ==
    /\ pc' = [pc EXCEPT ![t] = "idle"]
    /\ toasts' = {Toast(toast, 0)}
    /\ existingProducts' = [existingProducts EXCEPT ![t] = <<>>]
    /\ updatedProducts' = [updatedProducts EXCEPT ![t] = <<>>]
    /\ product' = [product EXCEPT ![t] = "A"]

\* The synchronous part between reading the cart row and writing it back.
addCompute(t, items, p) ==
    /\ product' = [product EXCEPT ![t] = p]
    /\ updatedProducts' = [updatedProducts EXCEPT ![t] = mergeItem(items, p)]
    /\ existingProducts' = [existingProducts EXCEPT ![t] = mergeAlias(items, p)]
    /\ pc' = [pc EXCEPT ![t] = "add_update"]

\* handleAddToCart of ProductCard, ProductDetail and Wishlist.addToCart, up
\* to the answer of the carts select.
handleAddToCart(t, p) ==
    /\ pc[t] = "idle"
    /\ page[t] = "browse"
    /\ addEnabled(t, p)
    /\ quantityOf(cart.products, p) < MaxQuantity
    /\ IF ~session
       THEN /\ toasts' = {Toast("Authentication required", 0)}
            /\ UNCHANGED <<pc, addVars, faults>>
       ELSE /\ toasts' = {}
            /\ \/ /\ cart.exists
                  /\ addCompute(t, cart.products, p)
                  /\ UNCHANGED faults
               \/ /\ ~cart.exists
                  /\ pc' = [pc EXCEPT ![t] = "add_insert"]
                  /\ product' = [product EXCEPT ![t] = p]
                  /\ UNCHANGED <<existingProducts, updatedProducts, faults>>
               \/ /\ CanFail            \* the select fails: cart is null
                  /\ faults' = faults + 1
                  /\ pc' = [pc EXCEPT ![t] = "add_insert"]
                  /\ product' = [product EXCEPT ![t] = p]
                  /\ UNCHANGED <<existingProducts, updatedProducts>>
    /\ UNCHANGED <<idVars, socialVars, storeVars, pageVars, submitVars, vendorVars>>
    /\ UNCHANGED run
    /\ keepBefore

\* handleAddToCart: the answer of the carts insert ("Create new cart").
handleAddToCart_insert(t) ==
    /\ pc[t] = "add_insert"
    /\ \/ /\ ~cart.exists
          /\ cart' = [exists |-> TRUE, products |-> <<>>]
          /\ addCompute(t, <<>>, product[t])
          /\ toasts' = {}
          /\ UNCHANGED <<faults>>
       \/ /\ cart.exists        \* one cart row per user: createError
          /\ addDone(t, "Error")
          /\ UNCHANGED <<cart, faults>>
       \/ /\ ~cart.exists
          /\ CanFail
          /\ faults' = faults + 1
          /\ addDone(t, "Error")
          /\ UNCHANGED cart
    /\ UNCHANGED <<idVars, socialVars, stock, inventory, profile, orders, pageVars,
                   submitVars, vendorVars>>
    /\ UNCHANGED run
    /\ keepBefore

\* An update that adds to the stored quantity where the stored list already
\* holds what is written.
updateCartMerged(row, products) ==
    [row EXCEPT !.products =
        [i \in 1..Len(products) |->
            IF quantityOf(row.products, products[i].id) >= products[i].quantity
            THEN [products[i] EXCEPT
                     !.quantity = quantityOf(row.products, products[i].id) + 1]
            ELSE products[i]]]

\* supabase.from('carts').update({ products: updatedProducts }).eq('id', cart.id)
updateCart(row, products) == [row EXCEPT !.products = products]

\* An add-to-cart that reserves the unit it adds by taking it from the stock.
handleAddToCart_updateReserving(t) ==
    /\ pc[t] = "add_update"
    /\ \/ /\ cart' = updateCart(cart, updatedProducts[t])
          /\ stock' = [stock EXCEPT ![product[t]] = clampStock(@, 1)]
          /\ addDone(t, "Added to cart")
          /\ run' = NoRun
          /\ UNCHANGED faults
       \/ /\ CanFail
          /\ faults' = faults + 1
          /\ addDone(t, "Error")
          /\ UNCHANGED <<cart, stock, run>>
    /\ keepBefore
    /\ UNCHANGED <<idVars, socialVars, inventory, profile, orders, pageVars,
                   submitVars, vendorVars>>

\* handleAddToCart: the answer of the carts update.
handleAddToCart_update(t) ==
    /\ pc[t] = "add_update"
    /\ \/ /\ cart' = updateCart(cart, updatedProducts[t])
          /\ addDone(t, "Added to cart")
          /\ run' = IF cart.products = <<>> THEN [id |-> product[t], n |-> 1]
                    ELSE IF run.id = product[t] THEN [run EXCEPT !.n = @ + 1]
                    ELSE NoRun
          /\ UNCHANGED faults
       \/ /\ CanFail
          /\ faults' = faults + 1
          /\ addDone(t, "Error")
          /\ UNCHANGED <<cart, run>>
    /\ keepBefore
    /\ UNCHANGED <<idVars, socialVars, stock, inventory, profile, orders, pageVars,
                   submitVars, vendorVars>>

\* ------------------------------------------------------ wishlist, reviews

\* What the wishlists insert of product p answers: no error, the duplicate
\* key error of a row that exists, or another error.
insertWishlistCodes(p) ==
    (IF p \in wishlist THEN {"23505"} ELSE {"none"})
        \cup (IF CanFail THEN {"other"} ELSE {})

\* handleAddToWishlist of ProductCard and ProductDetail.
handleAddToWishlist(t, p) ==
    /\ pc[t] = "idle"
    /\ page[t] = "browse"
    /\ IF ~session
       THEN /\ toasts' = {Toast("Authentication required", 0)}
            /\ UNCHANGED <<wishlist, faults>>
       ELSE \E code \in insertWishlistCodes(p) :
               /\ wishlist' = IF code = "none" THEN wishlist \cup {p} ELSE wishlist
               /\ faults' = IF code = "other" THEN faults + 1 ELSE faults
               /\ toasts' = IF code # "none" /\ ~ignored(code)
                             THEN {Toast("Error", 0)}
                             ELSE {Toast("Added to wishlist", 0)}
    /\ UNCHANGED <<idVars, storeVars, reviews, pageReviews, pc, pageVars,
                   addVars, submitVars, vendorVars>>
    /\ UNCHANGED run
    /\ keepBefore

\* Wishlist.removeFromWishlist of the row of product p the page lists.
removeFromWishlist(t, p) ==
    /\ pc[t] = "idle"
    /\ page[t] = "browse"
    /\ p \in wishlist
    /\ \/ /\ wishlist' = wishlist \ {p}
          /\ toasts' = {Toast("Removed from wishlist", 0)}
          /\ UNCHANGED faults
       \/ /\ CanFail
          /\ faults' = faults + 1
          /\ toasts' = {Toast("Error", 0)}
          /\ UNCHANGED wishlist
    /\ UNCHANGED <<idVars, storeVars, reviews, pageReviews, pc, pageVars,
                   addVars, submitVars, vendorVars>>
    /\ UNCHANGED run
    /\ keepBefore

\* Array.prototype.reverse: .order('created_at', { ascending: false })
Reverse(rs) == [i \in 1..Len(rs) |-> rs[Len(rs) + 1 - i]]

\* ProductDetail.fetchReviews: the reviews of product p, newest first.
fetchReviews(rows, p) == Reverse(SelectSeq(rows, LAMBDA r : r.product_id = p))

\* ProductDetail.handleSubmitReview on the page of product p, with the
\* fetchReviews that follows the insert.
handleSubmitReview(t, p, newRating) ==
    /\ pc[t] = "idle"
    /\ page[t] = "browse"
    /\ Len(reviews) < MaxReviews
    /\ IF ~session
       THEN /\ toasts' = {Toast("Authentication required", 0)}
            /\ UNCHANGED <<reviews, pageReviews, faults>>
       ELSE \/ /\ reviews' = Append(reviews,
                        [product_id |-> p, user_id |-> "U", rating |-> newRating])
               /\ toasts' = {Toast("Review submitted", 0)}
               /\ \/ /\ pageReviews' = [pageReviews EXCEPT ![t] =
                                            fetchReviews(reviews', p)]
                     /\ UNCHANGED faults
                  \/ /\ CanFail
                     /\ faults' = faults + 1
                     /\ UNCHANGED pageReviews
            \/ /\ CanFail
               /\ faults' = faults + 1
               /\ toasts' = {Toast("Error", 0)}
               /\ UNCHANGED <<reviews, pageReviews>>
    /\ UNCHANGED <<idVars, storeVars, wishlist, pc, pageVars, addVars,
                   submitVars, vendorVars>>
    /\ UNCHANGED run
    /\ keepBefore

\* ---------------------------------------------------------------- cart page

\* Cart.fetchCart and Checkout.fetchCartAndUser: the page is mounted and
\* loads the user and the cart's products.
loadCartPage(t, target) ==
    /\ pc[t] = "idle"
    /\ page[t] = "browse"
    /\ toasts' = {}
    /\ IF ~session
       THEN UNCHANGED <<pageVars, faults>>          \* navigate('/auth')
       ELSE /\ page' = [page EXCEPT ![t] = target]
            /\ inStock' = [inStock EXCEPT ![t] = {}]
            /\ user' = [user EXCEPT ![t] = TRUE]
            /\ \/ /\ cartItems' = [cartItems EXCEPT ![t] =
                                      IF cart.exists THEN cart.products ELSE <<>>]
                  /\ UNCHANGED faults
               \/ /\ CanFail
                  /\ faults' = faults + 1
                  /\ cartItems' = [cartItems EXCEPT ![t] = <<>>]
    /\ UNCHANGED <<idVars, socialVars, storeVars, pc, addVars, submitVars, vendorVars>>
    /\ UNCHANGED run
    /\ keepBefore

fetchCart(t) == loadCartPage(t, "cart")

\* No floor at all.
belowFloorNone(newQuantity) == FALSE

\* A floor that lets zero through.
belowFloorZero(newQuantity) == newQuantity < 0

\* if (newQuantity < 1) return;
belowFloor(newQuantity) == newQuantity < 1

\* Cart.updateQuantity, up to the call of updateCartInDatabase.
updateQuantity(t, itemId, newQuantity) ==
    /\ pc[t] = "idle"
    /\ page[t] = "cart"
    /\ newQuantity <= MaxQuantity
    /\ IF belowFloor(newQuantity)
       THEN UNCHANGED vars
       ELSE /\ cartItems' = [cartItems EXCEPT ![t] = setQuantity(@, itemId, newQuantity)]
            /\ updatedProducts' = [updatedProducts EXCEPT ![t] =
                                      setQuantity(cartItems[t], itemId, newQuantity)]
            /\ pc' = [pc EXCEPT ![t] = "cart_upsert"]
            /\ toasts' = {}
            /\ UNCHANGED <<idVars, socialVars, storeVars, page, user, inStock,
                           product, existingProducts, submitVars, vendorVars,
                           faults, run>>
            /\ keepBefore

\* Cart.removeItem, up to the call of updateCartInDatabase.
removeItem(t, itemId) ==
    /\ pc[t] = "idle"
    /\ page[t] = "cart"
    /\ cartItems' = [cartItems EXCEPT ![t] = filterOut(@, itemId)]
    /\ updatedProducts' = [updatedProducts EXCEPT ![t] = filterOut(cartItems[t], itemId)]
    /\ pc' = [pc EXCEPT ![t] = "remove_upsert"]
    /\ toasts' = {}
    /\ UNCHANGED <<idVars, socialVars, storeVars, page, user, inStock, product,
                   existingProducts, submitVars, vendorVars, faults>>
    /\ UNCHANGED run
    /\ keepBefore

\* Cart.updateCartInDatabase and the rest of its caller.  The upsert is either
\* applied to the user's cart row or rejected by the store.
updateCartInDatabase(t) ==
    /\ pc[t] \in {"cart_upsert", "remove_upsert"}
    /\ LET after == IF pc[t] = "remove_upsert"
                    THEN {Toast("Item removed", 0)} ELSE {} IN
       \/ /\ ~user[t]
          /\ toasts' = after
          /\ UNCHANGED <<cart, faults, run>>
       \/ /\ user[t]
          /\ cart' = [exists |-> TRUE, products |-> updatedProducts[t]]
          /\ toasts' = after
          /\ run' = NoRun
          /\ UNCHANGED faults
       \/ /\ user[t]
          /\ CanFail
          /\ faults' = faults + 1
          /\ toasts' = {Toast("Error", 0)} \cup after
          /\ UNCHANGED <<cart, run>>
    /\ keepBefore
    /\ pc' = [pc EXCEPT ![t] = "idle"]
    /\ updatedProducts' = [updatedProducts EXCEPT ![t] = <<>>]
    /\ UNCHANGED <<idVars, socialVars, stock, inventory, profile, orders, pageVars,
                   product, existingProducts, submitVars, vendorVars>>

\* ----------------------------------------------------------------- checkout

fetchCartAndUser(t) == loadCartPage(t, "checkout")

UserId == "U"

\* An order status other than the one handleSubmit writes.
statusProcessing == "processing"

\* status: 'pending'
statusPending == "pending"

\* The row handleSubmit inserts into orders.
orderRecord(items) ==
    [user_id |-> UserId, products |-> items, total |-> getTotalPrice(items),
     status |-> statusPending]

\* An insert that replaces the user's first order.
insertOrderOverwrite(rows, row) ==
    IF rows = <<>> THEN <<row>> ELSE [rows EXCEPT ![1] = row]

\* supabase.from('orders').insert(row)
insertOrder(rows, row) == Append(rows, row)

\* A catch block that takes back the order it had inserted.
catchBlockUndo(rows) == SubSeq(rows, 1, Len(rows) - 1)

\* catch (error) { console.error(...); toast(...) }: the orders rows after
\* the catch block, which issues no request.
catchBlock(rows) == rows

\* The handler leaves through its catch block; the page stays as it is.
submitFailed(t) ==
    /\ pc' = [pc EXCEPT ![t] = "idle"]
    /\ toasts' = {Toast("Error", 0)}
    /\ currentPoints' = [currentPoints EXCEPT ![t] = 0]
    /\ idx' = [idx EXCEPT ![t] = 0]
    /\ newStock' = [newStock EXCEPT ![t] = 0]

\* Checkout.handleSubmit, up to the answer of the orders insert.
handleSubmit(t) ==
    /\ pc[t] = "idle"
    /\ page[t] = "checkout"
    /\ Len(orders) < MaxOrders
    /\ IF ~user[t] \/ Len(cartItems[t]) = 0
       THEN UNCHANGED vars
       ELSE /\ \/ /\ orders' = insertOrder(orders, orderRecord(cartItems[t]))
                  /\ pc' = [pc EXCEPT ![t] = "submit_profile_select"]
                  /\ toasts' = {}
                  /\ before' = [u \in Tabs |->
                        IF u = t THEN [loyalty_points |-> profile.loyalty_points,
                                       stock |-> stock, run |-> run,
                                       orders |-> Len(orders)]
                        ELSE IF pc[u] \in SubmitPcs THEN before[u]
                        ELSE NoBefore]
                  /\ UNCHANGED <<submitVars, faults>>
               \/ /\ CanFail
                  /\ faults' = faults + 1
                  /\ submitFailed(t)
                  /\ keepBefore
                  /\ UNCHANGED orders
            /\ UNCHANGED <<idVars, socialVars, cart, stock, inventory, profile, pageVars,
                           addVars, vendorVars, run>>

\* const loyaltyPointsEarned = Math.floor(total)
loyaltyPointsEarned(t) == MathFloor(getTotalPrice(cartItems[t]))

\* handleSubmit: the answer of the profiles select.
handleSubmit_profileSelect(t) ==
    /\ pc[t] = "submit_profile_select"
    /\ \/ /\ currentPoints' = [currentPoints EXCEPT ![t] =
                IF profile.exists THEN profile.loyalty_points ELSE 0]
          /\ UNCHANGED faults
       \/ /\ CanFail                \* profile is null
          /\ faults' = faults + 1
          /\ currentPoints' = [currentPoints EXCEPT ![t] = 0]
    /\ pc' = [pc EXCEPT ![t] = "submit_profile_update"]
    /\ toasts' = {}
    /\ UNCHANGED <<idVars, socialVars, storeVars, pageVars, addVars, idx, newStock,
                   vendorVars>>
    /\ UNCHANGED run
    /\ keepBefore

\* handleSubmit: the answer of the profiles update.
handleSubmit_profileUpdate(t) ==
    /\ pc[t] = "submit_profile_update"
    /\ \/ /\ profile' = IF profile.exists
                        THEN [profile EXCEPT !.loyalty_points =
                                 currentPoints[t] + loyaltyPointsEarned(t)]
                        ELSE profile
          /\ pc' = [pc EXCEPT ![t] = "submit_stock_select"]
          /\ idx' = [idx EXCEPT ![t] = 1]
          /\ toasts' = {}
          /\ UNCHANGED <<orders, currentPoints, newStock, faults>>
       \/ /\ CanFail
          /\ faults' = faults + 1
          /\ submitFailed(t)
          /\ orders' = catchBlock(orders)
          /\ UNCHANGED profile
    /\ UNCHANGED <<idVars, socialVars, cart, stock, inventory, pageVars, addVars,
                   vendorVars>>
    /\ UNCHANGED run
    /\ keepBefore

\* A loop that handles the first line item only.
nextItemOnce(t) ==
    /\ idx' = [idx EXCEPT ![t] = 0]
    /\ pc' = [pc EXCEPT ![t] = "submit_clear"]

\* for (const item of cartItems): on to the next item, or to the cart clear.
nextItem(t) ==
    IF idx[t] < Len(cartItems[t])
    THEN /\ idx' = [idx EXCEPT ![t] = @ + 1]
         /\ pc' = [pc EXCEPT ![t] = "submit_stock_select"]
    ELSE /\ idx' = [idx EXCEPT ![t] = 0]
         /\ pc' = [pc EXCEPT ![t] = "submit_clear"]

\* handleSubmit: the answer of the products select of one line item.
handleSubmit_stockSelect(t) ==
    /\ pc[t] = "submit_stock_select"
    /\ LET item == cartItems[t][idx[t]] IN
       \/ /\ newStock' = [newStock EXCEPT ![t] =
                clampStock(stock[item.id], item.quantity)]
          /\ pc' = [pc EXCEPT ![t] = "submit_stock_update"]
          /\ UNCHANGED <<idx, faults>>
       \/ /\ CanFail                \* product is null: the item is skipped
          /\ faults' = faults + 1
          /\ nextItem(t)
          /\ UNCHANGED newStock
    /\ toasts' = {}
    /\ UNCHANGED <<idVars, socialVars, storeVars, pageVars, addVars, currentPoints,
                   vendorVars>>
    /\ UNCHANGED run
    /\ keepBefore

\* handleSubmit: the answer of the products update; its error is not read.
handleSubmit_stockUpdate(t) ==
    /\ pc[t] = "submit_stock_update"
    /\ LET item == cartItems[t][idx[t]] IN
       \/ /\ stock' = [stock EXCEPT ![item.id] = newStock[t]]
          /\ UNCHANGED faults
       \/ /\ CanFail
          /\ faults' = faults + 1
          /\ UNCHANGED stock
    /\ pc' = [pc EXCEPT ![t] = "submit_inventory_update"]
    /\ toasts' = {}
    /\ UNCHANGED <<idVars, socialVars, cart, inventory, profile, orders, pageVars,
                   addVars, submitVars, vendorVars>>
    /\ UNCHANGED run
    /\ keepBefore

\* handleSubmit: the answer of the inventory update; its error is not read.
handleSubmit_inventoryUpdate(t) ==
    /\ pc[t] = "submit_inventory_update"
    /\ LET item == cartItems[t][idx[t]] IN
       \/ /\ inventory' = IF inventory[item.id].exists
                          THEN [inventory EXCEPT ![item.id].stock = newStock[t]]
                          ELSE inventory
          /\ UNCHANGED faults
       \/ /\ CanFail
          /\ faults' = faults + 1
          /\ UNCHANGED inventory
    /\ nextItem(t)
    /\ newStock' = [newStock EXCEPT ![t] = 0]
    /\ toasts' = {}
    /\ UNCHANGED <<idVars, socialVars, cart, stock, profile, orders, pageVars, addVars,
                   currentPoints, vendorVars>>
    /\ UNCHANGED run
    /\ keepBefore

\* handleSubmit: the answer of the carts update that clears the cart (its
\* error is not read), the success toast and navigate('/orders').
handleSubmit_clearCart(t) ==
    /\ pc[t] = "submit_clear"
    /\ \/ /\ cart' = IF cart.exists THEN [cart EXCEPT !.products = <<>>] ELSE cart
          /\ run' = NoRun
          /\ UNCHANGED faults
       \/ /\ CanFail
          /\ faults' = faults + 1
          /\ UNCHANGED <<cart, run>>
    /\ toasts' = {Toast("Order placed successfully!", loyaltyPointsEarned(t))}
    /\ pc' = [pc EXCEPT ![t] = "idle"]
    /\ page' = [page EXCEPT ![t] = "browse"]
    /\ inStock' = [inStock EXCEPT ![t] = fetchProducts]
    /\ user' = [user EXCEPT ![t] = FALSE]
    /\ cartItems' = [cartItems EXCEPT ![t] = <<>>]
    /\ currentPoints' = [currentPoints EXCEPT ![t] = 0]
    /\ UNCHANGED <<idVars, socialVars, stock, inventory, profile, orders, addVars, idx,
                   newStock, vendorVars>>
    /\ UNCHANGED before

\* ------------------------------------------------------------- profile page

\* Profile.fetchProfile, up to the answer of the profiles select.
fetchProfile(t) ==
    /\ pc[t] = "idle"
    /\ page[t] = "browse"
    /\ session
    /\ \/ /\ profile.exists
          /\ UNCHANGED <<pc, faults>>
       \/ /\ ~profile.exists        \* PGRST116: create the profile
          /\ pc' = [pc EXCEPT ![t] = "profile_insert"]
          /\ UNCHANGED faults
       \/ /\ CanFail                \* any other error is thrown and logged
          /\ faults' = faults + 1
          /\ UNCHANGED pc
    /\ toasts' = {}
    /\ UNCHANGED <<idVars, socialVars, storeVars, pageVars, addVars, submitVars, vendorVars>>
    /\ UNCHANGED run
    /\ keepBefore

\* fetchProfile: the answer of the profiles insert.
fetchProfile_insert(t) ==
    /\ pc[t] = "profile_insert"
    /\ \/ /\ ~profile.exists
          /\ profile' = [exists |-> TRUE, loyalty_points |-> 0]
          /\ UNCHANGED faults
       \/ /\ profile.exists         \* one profile row per user: createError
          /\ UNCHANGED <<profile, faults>>
       \/ /\ ~profile.exists
          /\ CanFail
          /\ faults' = faults + 1
          /\ UNCHANGED profile
    /\ pc' = [pc EXCEPT ![t] = "idle"]
    /\ toasts' = {}
    /\ UNCHANGED <<idVars, socialVars, cart, stock, inventory, orders, pageVars, addVars,
                   submitVars, vendorVars>>
    /\ UNCHANGED run
    /\ keepBefore

\* -------------------------------------------------------------- vendor page

\* Vendor.handleSave / updateStock with the typed editStock, up to the answer
\* of the products update.
updateStock(productId, editStock) ==
    /\ vpc = "idle"
    /\ \/ /\ stock' = [stock EXCEPT ![productId] = editStock]
          /\ vpc' = "inventory"
          /\ vProductId' = productId
          /\ vNewStock' = editStock
          /\ toasts' = {}
          /\ UNCHANGED faults
       \/ /\ CanFail
          /\ faults' = faults + 1
          /\ toasts' = {Toast("Error", 0)}
          /\ UNCHANGED <<stock, vpc, vProductId, vNewStock>>
    /\ UNCHANGED <<idVars, socialVars, cart, inventory, profile, orders, pc, pageVars,
                   addVars, submitVars>>
    /\ UNCHANGED run
    /\ keepBefore

\* updateStock: the answer of the inventory upsert.
updateStock_inventory ==
    /\ vpc = "inventory"
    /\ \/ /\ inventory' = [inventory EXCEPT ![vProductId] =
                              [exists |-> TRUE, stock |-> vNewStock]]
          /\ toasts' = {Toast("Stock updated", 0)}
          /\ UNCHANGED faults
       \/ /\ CanFail
          /\ faults' = faults + 1
          /\ toasts' = {Toast("Error", 0)}
          /\ UNCHANGED inventory
    /\ vpc' = "idle"
    /\ vProductId' = "A"
    /\ vNewStock' = 0
    /\ UNCHANGED <<idVars, socialVars, cart, stock, profile, orders, pc, pageVars,
                   addVars, submitVars>>
    /\ UNCHANGED run
    /\ keepBefore

\* ------------------------------------------------------------ specification

\* Product pages and the cart page, for the products the customer picks.
shopping(T, P) ==
    \/ \E t \in T : navigate(t)
    \/ \E t \in T, p \in P : handleAddToCart(t, p)
    \/ \E t \in T : handleAddToCart_insert(t)
    \/ \E t \in T : handleAddToCart_update(t)
    \/ \E t \in T : fetchCart(t)
    \/ \E t \in T : \E i \in 1..Len(cartItems[t]) : \E d \in {0 - 1, 1} :
          updateQuantity(t, cartItems[t][i].id, cartItems[t][i].quantity + d)
    \/ \E t \in T : \E i \in 1..Len(cartItems[t]) :
          removeItem(t, cartItems[t][i].id)
    \/ \E t \in T : updateCartInDatabase(t)

\* The steps of a handleSubmit that has created its order.
finalize(T) ==
    \/ \E t \in T : handleSubmit_profileSelect(t)
    \/ \E t \in T : handleSubmit_profileUpdate(t)
    \/ \E t \in T : handleSubmit_stockSelect(t)
    \/ \E t \in T : handleSubmit_stockUpdate(t)
    \/ \E t \in T : handleSubmit_inventoryUpdate(t)
    \/ \E t \in T : handleSubmit_clearCart(t)

checkout(T) ==
    \/ \E t \in T : fetchCartAndUser(t)
    \/ \E t \in T : handleSubmit(t)
    \/ finalize(T)

profilePage(T) ==
    \/ \E t \in T : fetchProfile(t)
    \/ \E t \in T : fetchProfile_insert(t)

identity == handleSignUp \/ handleSignIn \/ \E t \in Tabs : handleSignOut(t)

vendor(P) ==
    \/ \E p \in P, s \in StockInputs : updateStock(p, s)
    \/ updateStock_inventory

\* The products the customer picks from, but in SpecMerge.
Picked == {"A", "B"}

\* The customer signs up and shops in one tab.
Next == identity \/ shopping({1}, Picked) \/ checkout({1}) \/ profilePage({1})

Spec == Init /\ [][Next]_vars

\* The customer is signed up and signed in, with nothing in the store yet.
InitTabs ==
    /\ registered = TRUE
    /\ session = TRUE
    /\ cart = NoCart
    /\ stock = [p \in Products |-> InitialStock[p]]
    /\ inventory = [p \in Products |-> [exists |-> TRUE, stock |-> InitialStock[p]]]
    /\ profile = [exists |-> TRUE, loyalty_points |-> 0]
    /\ orders = <<>>
    /\ pc = [t \in Tabs |-> "idle"]
    /\ page = [t \in Tabs |-> "browse"]
    /\ user = [t \in Tabs |-> FALSE]
    /\ cartItems = [t \in Tabs |-> <<>>]
    /\ inStock = [t \in Tabs |-> {p \in Products : InitialStock[p] # 0}]
    /\ wishlist = {}
    /\ reviews = <<>>
    /\ pageReviews = [t \in Tabs |-> <<>>]
    /\ product = [t \in Tabs |-> "A"]
    /\ existingProducts = [t \in Tabs |-> <<>>]
    /\ updatedProducts = [t \in Tabs |-> <<>>]
    /\ currentPoints = [t \in Tabs |-> 0]
    /\ idx = [t \in Tabs |-> 0]
    /\ newStock = [t \in Tabs |-> 0]
    /\ toasts = {}
    /\ vpc = "idle"
    /\ vProductId = "A"
    /\ vNewStock = 0
    /\ faults = 0
    /\ run = NoRun
    /\ before = [t \in Tabs |-> NoBefore]

\* The customer shops for product A in every tab at once.
NextTabs == shopping(Tabs, {"A"}) \/ checkout(Tabs)

SpecTabs == InitTabs /\ [][NextTabs]_vars

\* The vendor edits the stock of product A while the customer buys it.
NextVendor == shopping({1}, {"A"}) \/ checkout({1}) \/ vendor({"A"})

SpecVendor == InitTabs /\ [][NextVendor]_vars

\* Add-to-cart alone, as a second tab runs it.
adding(T, P) ==
    \/ \E t \in T, p \in P : handleAddToCart(t, p)
    \/ \E t \in T : handleAddToCart_insert(t)
    \/ \E t \in T : handleAddToCart_update(t)

\* The customer fills and edits the cart in tab 1 and checks out once, while
\* tab 2 adds products at the same time.
NextCart ==
    \/ shopping({1}, Picked)
    \/ adding({2}, Picked)
    \/ \E t \in {1} : fetchCartAndUser(t)
    \/ \E t \in {1} : orders = <<>> /\ handleSubmit(t)
    \/ finalize({1})

SpecCart == InitTabs /\ [][NextCart]_vars

\* Item lists without a repeated product, of quantities 1..MaxQuantity.
cartLists(P) ==
    LET proto == P \X (1..MaxQuantity)
        lists == UNION {[1..n -> proto] : n \in 0..Cardinality(P)}
    IN {[i \in 1..Len(l) |-> [newCartItem(l[i][1]) EXCEPT !.quantity = l[i][2]]] :
          l \in {m \in lists : \A i, j \in 1..Len(m) : i # j => m[i][1] # m[j][1]}}

\* Add-to-cart on every stored cart of the whole catalogue.
InitMerge ==
    /\ registered = TRUE
    /\ session = TRUE
    /\ cart \in {[exists |-> TRUE, products |-> l] : l \in cartLists(Products)}
    /\ stock = [p \in Products |-> InitialStock[p]]
    /\ inventory = [p \in Products |-> [exists |-> TRUE, stock |-> InitialStock[p]]]
    /\ profile = [exists |-> TRUE, loyalty_points |-> 0]
    /\ orders = <<>>
    /\ pc = [t \in Tabs |-> "idle"]
    /\ page = [t \in Tabs |-> "browse"]
    /\ user = [t \in Tabs |-> FALSE]
    /\ cartItems = [t \in Tabs |-> <<>>]
    /\ inStock = [t \in Tabs |-> {p \in Products : InitialStock[p] # 0}]
    /\ wishlist = {}
    /\ reviews = <<>>
    /\ pageReviews = [t \in Tabs |-> <<>>]
    /\ product = [t \in Tabs |-> "A"]
    /\ existingProducts = [t \in Tabs |-> <<>>]
    /\ updatedProducts = [t \in Tabs |-> <<>>]
    /\ currentPoints = [t \in Tabs |-> 0]
    /\ idx = [t \in Tabs |-> 0]
    /\ newStock = [t \in Tabs |-> 0]
    /\ toasts = {}
    /\ vpc = "idle"
    /\ vProductId = "A"
    /\ vNewStock = 0
    /\ faults = 0
    /\ run = NoRun
    /\ before = [t \in Tabs |-> NoBefore]

NextMerge == adding({1}, Products)

SpecMerge == InitMerge /\ [][NextMerge]_vars

\* Wishlist and review handlers of the product pages.
social(T, P, R) ==
    \/ \E t \in T, p \in P : handleAddToWishlist(t, p)
    \/ \E t \in T, p \in P, r \in R : handleSubmitReview(t, p, r)

\* The customer keeps a wishlist and reviews product A, signing in and out.
NextSocial == identity \/ social({1}, Picked, Ratings)

SpecSocial == Init /\ [][NextSocial]_vars

\* Every operation of the customer on product A from sign-up on, and the
\* vendor's stock edit.
NextStock ==
    \/ handleSignUp
    \/ shopping({1}, {"A"})
    \/ checkout({1})
    \/ profilePage({1})
    \/ social({1}, {"A"}, {5})
    \/ \E t \in {1} : removeFromWishlist(t, "A")
    \/ vendor({"A"})

SpecStock == Init /\ [][NextStock]_vars

\* The session ends and begins again, in either tab, while the customer
\* uses tab 1 to add product A, wishlist it, review it and check out.
NextGuest ==
    \/ handleSignIn
    \/ \E t \in Tabs : handleSignOut(t)
    \/ adding({1}, {"A"})
    \/ social({1}, {"A"}, {5})
    \/ checkout({1})

SpecGuest == InitTabs /\ [][NextGuest]_vars

\* What a caller can pass to updateQuantity as newQuantity.
QuantityInputs == (0 - 1) .. MaxQuantity

\* The cart page of tab 1 shows one of the stored carts of the whole
\* catalogue.
InitEdit ==
    /\ registered = TRUE
    /\ session = TRUE
    /\ cart \in {[exists |-> TRUE, products |-> l] : l \in cartLists(Products)}
    /\ stock = [p \in Products |-> InitialStock[p]]
    /\ inventory = [p \in Products |-> [exists |-> TRUE, stock |-> InitialStock[p]]]
    /\ profile = [exists |-> TRUE, loyalty_points |-> 0]
    /\ orders = <<>>
    /\ wishlist = {}
    /\ reviews = <<>>
    /\ pageReviews = [t \in Tabs |-> <<>>]
    /\ pc = [t \in Tabs |-> "idle"]
    /\ page = [t \in Tabs |-> IF t = 1 THEN "cart" ELSE "browse"]
    /\ user = [t \in Tabs |-> t = 1]
    /\ cartItems = [t \in Tabs |-> IF t = 1 THEN cart.products ELSE <<>>]
    /\ inStock = [t \in Tabs |->
                    IF t = 1 THEN {} ELSE {p \in Products : InitialStock[p] # 0}]
    /\ product = [t \in Tabs |-> "A"]
    /\ existingProducts = [t \in Tabs |-> <<>>]
    /\ updatedProducts = [t \in Tabs |-> <<>>]
    /\ currentPoints = [t \in Tabs |-> 0]
    /\ idx = [t \in Tabs |-> 0]
    /\ newStock = [t \in Tabs |-> 0]
    /\ toasts = {}
    /\ vpc = "idle"
    /\ vProductId = "A"
    /\ vNewStock = 0
    /\ faults = 0
    /\ run = NoRun
    /\ before = [t \in Tabs |-> NoBefore]

\* The cart page's handlers, called with every product id and quantity.
NextEdit ==
    \/ \E p \in Products, q \in QuantityInputs : updateQuantity(1, p, q)
    \/ \E p \in Products : removeItem(1, p)
    \/ updateCartInDatabase(1)

SpecEdit == InitEdit /\ [][NextEdit]_vars

\* ------------------------------------------------------------------- claims

\* C1: a stored cart never holds two entries with the same product id,
\* whatever add-to-cart, updateQuantity, removeItem and order finalization
\* did and however they interleaved.
C1_CartProductsUnique ==
    \A i, j \in 1..Len(cart.products) :
        i # j => cart.products[i].id # cart.products[j].id

\* Both tabs are about to write an add of the same product, which the stored
\* two-entry cart already holds.
C1_Witness ==
    /\ pc[1] = "add_update"
    /\ pc[2] = "add_update"
    /\ product[1] = product[2]
    /\ Len(cart.products) = 2
    /\ \E i \in 1..2 : cart.products[i].id = product[1]

\* C2: every item of a stored cart has quantity >= 1.
C2_QuantityAtLeastOne ==
    \A i \in 1..Len(cart.products) : cart.products[i].quantity >= 1

\* The cart page is about to write a decrement from 2 to 1.
C2_Witness ==
    \E t \in Tabs :
        /\ pc[t] = "cart_upsert"
        /\ Len(cart.products) >= 1
        /\ Len(updatedProducts[t]) = Len(cart.products)
        /\ cart.products[1].quantity = 2
        /\ updatedProducts[t][1].quantity = 1

\* C3: add-to-cart of a product the list read already holds yields a list of
\* the same length in which that one entry has its quantity raised by exactly
\* one and every other entry is the same, at the same position.
C3_IncrementExisting ==
    \A t \in Tabs :
        pc[t] = "add_update" =>
            LET old == cart.products
                new == updatedProducts[t]
                p == product[t]
            IN (\E i \in 1..Len(old) : old[i].id = p) =>
                 /\ Len(new) = Len(old)
                 /\ \E i \in 1..Len(old) :
                      /\ old[i].id = p
                      /\ new[i].quantity = old[i].quantity + 1
                      /\ new[i].id = old[i].id
                      /\ new[i].name = old[i].name
                      /\ new[i].price = old[i].price
                      /\ new[i].image = old[i].image
                      /\ \A j \in 1..Len(old) : j # i => new[j] = old[j]

\* The first of three stored entries is being incremented.
C3_Witness ==
    /\ pc[1] = "add_update"
    /\ Len(cart.products) = 3
    /\ cart.products[1].id = product[1]
    /\ updatedProducts[1][1].quantity = 2

\* C4: add-to-cart of a product the list read does not hold yields that
\* list, unchanged and in the same order, followed by one new last entry
\* {id, name, price, image, quantity 1}.
C4_AppendNew ==
    \A t \in Tabs :
        pc[t] = "add_update" =>
            LET old == cart.products
                new == updatedProducts[t]
                p == product[t]
            IN (\A i \in 1..Len(old) : old[i].id # p) =>
                 /\ Len(new) = Len(old) + 1
                 /\ \A i \in 1..Len(old) : new[i] = old[i]
                 /\ new[Len(new)] = [id |-> p, name |-> Name(p),
                                    price |-> Price[p], image |-> Image(p),
                                    quantity |-> 1]

\* A third product is being added behind two stored entries.
C4_Witness ==
    /\ pc[1] = "add_update"
    /\ Len(cart.products) = 2
    /\ \A i \in 1..2 : cart.products[i].id # product[1]
    /\ Len(updatedProducts[1]) = 3

OrderPlaced == "Order placed successfully!"

\* The tab whose handleSubmit ended with the step just taken.
justPlaced(t) ==
    /\ pc[t] = "idle"
    /\ before[t] # NoBefore
    /\ \E x \in toasts : x.title = OrderPlaced

lastOrder == orders[Len(orders)]

\* C5: with no failure and nothing running beside it, n >= 1 successive adds
\* of one product (price p, stock s) to an empty cart give a cart of exactly
\* one entry of quantity n; the finalization that follows, for a user with L
\* loyalty points, gives an order of total n*p, floor(n*p) points earned,
\* stock max(0, s - n), an empty stored cart and L + floor(n*p) points.
C5_EndToEnd ==
    faults = 0 =>
        /\ run.n >= 1 =>
              cart.products = <<[id |-> run.id, name |-> Name(run.id),
                                 price |-> Price[run.id],
                                 image |-> Image(run.id), quantity |-> run.n]>>
        /\ \A t \in Tabs :
              (justPlaced(t) /\ before[t].run.n >= 1) =>
                  LET n == before[t].run.n
                      a == before[t].run.id
                      s == before[t].stock[a]
                      L == before[t].loyalty_points
                  IN /\ Len(lastOrder.products) = 1
                     /\ lastOrder.products[1].id = a
                     /\ lastOrder.products[1].quantity = n
                     /\ lastOrder.total = n * Price[a]
                     /\ \E k \in 0..(n * Price[a]) :
                          /\ 100 * k <= n * Price[a]
                          /\ n * Price[a] < 100 * (k + 1)
                          /\ toasts = {Toast(OrderPlaced, k)}
                          /\ profile.exists
                          /\ profile.loyalty_points = L + k
                     /\ stock[a] = (IF s - n > 0 THEN s - n ELSE 0)
                     /\ cart.exists
                     /\ cart.products = <<>>

\* A second order of two units of A is placed when the stock is below two
\* and the customer already has points.
C5_Witness ==
    /\ faults = 0
    /\ justPlaced(1)
    /\ before[1].run = [id |-> "A", n |-> 2]
    /\ before[1].loyalty_points > 0
    /\ before[1].stock["A"] < 2

\* C6: the total stored in an order is the sum over its items of unit price
\* times quantity, with no rounding.
C6_OrderTotalIsSum ==
    \A k \in 1..Len(orders) :
        LET items == orders[k].products
            upTo[i \in 0..Len(items)] ==
                IF i = 0 THEN 0
                ELSE upTo[i - 1] + items[i].price * items[i].quantity
        IN orders[k].total = upTo[Len(items)]

\* An order of two line items whose total is not a whole number of units.
C6_Witness ==
    \E k \in 1..Len(orders) :
        /\ Len(orders[k].products) = 2
        /\ orders[k].total = 2 * 1999 + 1000

\* C7: the loyalty points a finalization earns are its order total truncated
\* to a whole number, never rounded up, both as shown and as added to the
\* profile.
C7_PointsAreFloorOfTotal ==
    \A t \in Tabs :
        LET total == lastOrder.total IN
        /\ (pc[t] = "submit_stock_select" /\ idx[t] = 1 /\ profile.exists) =>
              /\ 100 * (profile.loyalty_points - currentPoints[t]) <= total
              /\ total < 100 * (profile.loyalty_points - currentPoints[t] + 1)
        /\ justPlaced(t) =>
              \A x \in toasts :
                  /\ 100 * x.points <= total
                  /\ total < 100 * (x.points + 1)

\* An order of 19.99 has earned 19 points.
C7_Witness ==
    /\ justPlaced(1)
    /\ lastOrder.total = 1999
    /\ toasts = {Toast(OrderPlaced, 19)}
    /\ profile.loyalty_points = before[1].loyalty_points + 19

\* C8: the stock a finalization writes for a line item is max(0, stock read -
\* quantity); a quantity above the stock read writes 0 and the finalization
\* still ends in success, it is not rejected.
C8_StockClampedNotRejected ==
    \A t \in Tabs :
        /\ pc[t] = "submit_stock_update" =>
              LET item == cartItems[t][idx[t]]
                  read == stock[item.id]
              IN /\ item.quantity > read => newStock[t] = 0
                 /\ item.quantity <= read => newStock[t] = read - item.quantity
        /\ (pc[t] = "submit_inventory_update" /\ faults = 0) =>
              stock[cartItems[t][idx[t]].id] = newStock[t]
        /\ (before[t] # NoBefore /\ pc[t] = "idle" /\ faults = 0) =>
              /\ \E x \in toasts : x.title = OrderPlaced
              /\ \A i \in 1..Len(lastOrder.products) :
                    LET item == lastOrder.products[i]
                        read == before[t].stock[item.id]
                    IN /\ item.quantity > read => stock[item.id] = 0
                       /\ item.quantity <= read =>
                             stock[item.id] = read - item.quantity

\* A finalization of more units than the stock held has ended in success.
C8_Witness ==
    /\ faults = 0
    /\ justPlaced(1)
    /\ \E i \in 1..Len(lastOrder.products) :
          LET item == lastOrder.products[i] IN
          /\ item.quantity > before[1].stock[item.id]
          /\ before[1].stock[item.id] > 0
          /\ stock[item.id] = 0

\* C9: in every reachable state every product's stock is a non-negative
\* integer, whatever order finalizations and vendor stock edits have run.
C9_StockNonNegative == \A p \in Products : stock[p] \in Nat

\* C10: loyalty points never decrease: every step that writes the
\* loyalty_points of an existing profile stores a value at least the value
\* stored before it, finalizations of one user running side by side included,
\* and only a finalization's profile update changes them.
C10_PointsNeverDecrease ==
    [][profile.exists =>
          /\ profile'.exists
          /\ profile'.loyalty_points >= profile.loyalty_points
          /\ profile' # profile =>
                \E t \in Tabs : pc[t] = "submit_profile_update"]_vars

\* C11: an order record never changes once it is created: every step, be it
\* an add-to-cart, a cart quantity update, an item removal, a cart clear, a
\* vendor stock edit or a further finalization, leaves the owner, the item
\* list and the total of every existing order as they were.
C11_OrdersImmutable ==
    [][/\ Len(orders') >= Len(orders)
       /\ \A k \in 1..Len(orders) :
             /\ orders'[k].user_id = orders[k].user_id
             /\ orders'[k].products = orders[k].products
             /\ orders'[k].total = orders[k].total]_vars

\* After a first order a different second one was placed, the vendor has
\* raised the stock again and the cart has been refilled.
C11_Witness ==
    /\ Len(orders) = 2
    /\ orders[1].products # orders[2].products
    /\ orders[1].total # orders[2].total
    /\ stock["A"] = MaxStock
    /\ cart.products # <<>>

\* C12: whatever cart mutations of the same user are interleaved with a
\* finalization, the item list recorded in the order it creates is the user's
\* stored cart item list at the moment the order record is created.
C12_OrderIsStoredCart ==
    [][Len(orders') > Len(orders) =>
          orders'[Len(orders')].products = cart.products]_vars

\* C13: every order is created with status pending and no operation changes
\* an order's status: in every reachable state every order's status is
\* pending.
C13_StatusPending ==
    \A k \in 1..Len(orders) : orders[k].status = "pending"

\* Two orders have been placed, no handler is running and the cart has been
\* refilled.
C13_Witness ==
    /\ Len(orders) = 2
    /\ cart.products # <<>>
    /\ \A t \in Tabs : pc[t] = "idle"
    /\ before[1] = NoBefore

\* C14: an add-to-cart request for a product whose stock is 0 is rejected
\* before the merge runs: the handler does not go on to read and write the
\* cart, and the stored cart stays as it is.
C14_SoldOutAddRejected ==
    [][\A t \in Tabs, p \in Products :
          (stock[p] = 0 /\ handleAddToCart(t, p)) =>
              /\ pc'[t] = "idle"
              /\ cart' = cart]_vars

\* C15: an updateQuantity request with newQuantity < 1 is a no-op: the list
\* the page shows and the stored cart stay as they are, the item is neither
\* zeroed nor removed, and no store write is issued.
C15_BelowFloorNoOp ==
    [][\A t \in Tabs, p \in Products, q \in QuantityInputs :
          (q < 1 /\ updateQuantity(t, p, q)) =>
              /\ cartItems' = cartItems
              /\ cart' = cart
              /\ pc' = pc
              /\ updatedProducts' = updatedProducts
              /\ faults' = faults]_vars

\* After a decrement to 1 whose write failed, the page shows quantity 1 where
\* the store holds 2, and the minus request of that item carries 0; the
\* rejected request leaves this very state.
C15_Witness ==
    /\ page[1] = "cart"
    /\ pc[1] = "idle"
    /\ faults = 1
    /\ Len(cartItems[1]) = 2
    /\ Len(cart.products) = 2
    /\ cartItems[1][2].quantity = 1
    /\ cart.products[2].quantity = 2
    /\ ENABLED updateQuantity(1, cartItems[1][2].id, 0)

\* C16: removeItem yields exactly the entries whose product id differs from
\* the one given, in their original relative order and with their quantities
\* unchanged; when no entry matches, the list is unchanged.
C16_RemoveItemFilters ==
    [][\A t \in Tabs, p \in Products :
          removeItem(t, p) =>
              LET in == cartItems[t]
                  out == cartItems'[t]
                  keep == {i \in 1..Len(in) : in[i].id # p}
              IN /\ Len(out) = Cardinality(keep)
                 /\ \A i \in keep : out[Cardinality({j \in keep : j <= i})] = in[i]
                 /\ keep = 1..Len(in) => out = in
                 /\ updatedProducts'[t] = out]_vars

\* The first of three entries has been removed; the other two are shown in
\* their order, one of them with quantity 2.
C16_Witness ==
    /\ pc[1] = "remove_upsert"
    /\ Len(cart.products) = 3
    /\ cartItems[1] = <<cart.products[2], cart.products[3]>>
    /\ cartItems[1][1].quantity = 2
    /\ updatedProducts[1] = cartItems[1]

\* C17: the cart merge is pure: once add-to-cart has computed the updated
\* list, the item list it read, the quantity of every item record in it
\* included, is what it was before.
C17_MergeLeavesInput ==
    \A t \in Tabs :
        pc[t] = "add_update" => existingProducts[t] = cart.products

\* C18: with no user authenticated, add-to-cart, add-to-wishlist,
\* submit-review and order finalization each abort: the request leaves every
\* record of the store (carts, wishlists, reviews, orders, profiles,
\* products, inventory) as it is and the handler does not go on.
C18_GuestChangesNothing ==
    [][\A t \in Tabs :
          (/\ ~session
           /\ \/ \E p \in Products : handleAddToCart(t, p)
              \/ \E p \in Products : handleAddToWishlist(t, p)
              \/ \E p \in Products, r \in Ratings : handleSubmitReview(t, p, r)
              \/ handleSubmit(t)) =>
              /\ UNCHANGED <<cart, stock, inventory, profile, orders,
                             wishlist, reviews>>
              /\ pc'[t] = "idle"]_vars

\* C19: adding a product to the wishlist is idempotent: for a product already
\* in the wishlist the records stay as they are and success is reported, the
\* duplicate-key failure being suppressed; any other store failure is
\* reported as an error; a product not yet listed is added.
C19_WishlistIdempotent ==
    [][\A t \in Tabs, p \in Products :
          (session /\ handleAddToWishlist(t, p)) =>
              /\ (p \in wishlist /\ faults' = faults) =>
                    /\ wishlist' = wishlist
                    /\ toasts' = {Toast("Added to wishlist", 0)}
              /\ (p \notin wishlist /\ faults' = faults) =>
                    /\ wishlist' = wishlist \cup {p}
                    /\ toasts' = {Toast("Added to wishlist", 0)}
              /\ faults' # faults =>
                    /\ wishlist' = wishlist
                    /\ toasts' = {Toast("Error", 0)}]_vars

\* Every product the customer picks from is in the wishlist and success has
\* just been reported: the state a repeated add starts from and ends in.
C19_Witness ==
    /\ session
    /\ faults = 0
    /\ wishlist = Picked
    /\ toasts = {Toast("Added to wishlist", 0)}

\* C20: averageRating is 0 for an empty review list, with no division by
\* zero, and otherwise the sum of the ratings divided by their number
\* (ratings 4, 5, 3 give 4); for ratings in 1..5 it lies in 1..5.
C20_AverageRating ==
    \A rs \in {pageReviews[t] : t \in Tabs}
              \cup {SelectSeq(reviews, LAMBDA r : r.product_id = p) : p \in Products} :
        LET a == averageRating(rs)
            upTo[i \in 0..Len(rs)] ==
                IF i = 0 THEN 0 ELSE upTo[i - 1] + rs[i].rating
        IN /\ a.den # 0
           /\ rs = <<>> => a.num = 0
           /\ rs # <<>> => a.num * Len(rs) = upTo[Len(rs)] * a.den
           /\ (rs # <<>> /\ \A i \in 1..Len(rs) : rs[i].rating \in 1..5) =>
                 /\ 1 * a.den <= a.num
                 /\ a.num <= 5 * a.den
           /\ {rs[i].rating : i \in 1..Len(rs)} = {3, 4, 5} /\ Len(rs) = 3 =>
                 a.num = 4 * a.den

\* The product page shows the reviews rated 4, 5 and 3, newest first, and
\* the other product has no review.
C20_Witness ==
    /\ Len(pageReviews[1]) = 3
    /\ pageReviews[1][1].rating = 3
    /\ pageReviews[1][2].rating = 5
    /\ pageReviews[1][3].rating = 4
    /\ \E p \in Picked : SelectSeq(reviews, LAMBDA r : r.product_id = p) = <<>>

\* C21: two add-to-cart calls of the same user for the same product that have
\* both read the same stored list both write quantity q + 1: each write
\* stores the list its handler computed from what it read, with no version
\* check, and the other handler neither reads again nor retries, so the
\* stored quantity after both is q + 1 and one increment is lost.
C21_LostUpdate ==
    [][\A t \in Tabs :
          (handleAddToCart_update(t) /\ faults' = faults) =>
              /\ cart'.products = updatedProducts[t]
              /\ \A u \in Tabs \ {t} :
                    (/\ pc[u] = "add_update"
                     /\ product[u] = product[t]
                     /\ updatedProducts[u] = updatedProducts[t]) =>
                        /\ pc'[u] = "add_update"
                        /\ updatedProducts'[u] = cart'.products
                        /\ quantityOf(cart'.products, product[t])
                             = quantityOf(updatedProducts[u], product[u])]_vars

\* Two adds of A have reported success, with no failure, and the stored
\* quantity is 1.
C21_Witness ==
    /\ faults = 0
    /\ run = [id |-> "A", n |-> 2]
    /\ Len(cart.products) = 1
    /\ cart.products[1].quantity = 1
    /\ \A t \in Tabs : pc[t] = "idle"
    /\ toasts = {Toast("Added to cart", 0)}

\* C22: order finalization is not atomic: when a store write fails partway
\* through, what was written before is not undone. After the handler has
\* left through its catch block the order record exists, while the cart is
\* not cleared and the later writes (points, stock) were never applied.
C22_PartialFinalization ==
    \A t \in Tabs :
        (/\ before[t] # NoBefore
         /\ pc[t] = "idle"
         /\ toasts = {Toast("Error", 0)}) =>
            /\ Len(orders) >= 1
            /\ lastOrder.products = cartItems[t]
            /\ lastOrder.products # <<>>
            /\ cart.products = cartItems[t]
            /\ stock = before[t].stock
            /\ profile.loyalty_points = before[t].loyalty_points

\* The first order's profile update has failed: the order is stored, the
\* cart is full, the stock is what the shop opened with.
C22_Witness ==
    /\ before[1] # NoBefore
    /\ pc[1] = "idle"
    /\ toasts = {Toast("Error", 0)}
    /\ Len(orders) = 1
    /\ cart.products = orders[1].products
    /\ stock = InitialStock
    /\ profile.loyalty_points = 0

\* C23: within one finalization the writes are issued strictly in this
\* order: the order is created, then the profile's points are updated, then
\* for each line item in cart order the product's stock is updated and after
\* it that product's inventory record, then the cart is cleared; each write
\* is issued when the one before it has been answered.
C23_WritesInOrder ==
    [][/\ orders' # orders =>
            \E t \in Tabs : /\ pc[t] = "idle"
                            /\ pc'[t] = "submit_profile_select"
                            /\ orders' = Append(orders, orderRecord(cartItems[t]))
       /\ \A t \in Tabs : pc[t] \in SubmitPcs =>
            LET n == Len(cartItems[t])
                item == cartItems[t][idx[t]]
            IN  /\ Len(orders) >= 1
                /\ lastOrder.products = cartItems[t]
                /\ cartItems'[t] \in {cartItems[t], <<>>}
                /\ profile' # profile =>
                      /\ pc[t] = "submit_profile_update"
                      /\ pc'[t] = "submit_stock_select"
                      /\ idx'[t] = 1
                      /\ UNCHANGED <<orders, stock, inventory, cart>>
                /\ stock' # stock =>
                      /\ pc[t] = "submit_stock_update"
                      /\ pc'[t] = "submit_inventory_update"
                      /\ idx'[t] = idx[t]
                      /\ \A p \in Products \ {item.id} : stock'[p] = stock[p]
                      /\ UNCHANGED <<orders, profile, inventory, cart>>
                /\ inventory' # inventory =>
                      /\ pc[t] = "submit_inventory_update"
                      /\ inventory'[item.id].stock = newStock[t]
                      /\ \A p \in Products \ {item.id} : inventory'[p] = inventory[p]
                      /\ UNCHANGED <<orders, profile, stock, cart>>
                /\ cart' # cart =>
                      /\ pc[t] = "submit_clear"
                      /\ pc'[t] = "idle"
                      /\ cart'.products = <<>>
                      /\ UNCHANGED <<orders, profile, stock, inventory>>
                /\ pc'[t] = "submit_stock_select" /\ pc[t] # "submit_stock_select" =>
                      \/ pc[t] = "submit_profile_update" /\ idx'[t] = 1
                      \/ pc[t] = "submit_inventory_update" /\ idx'[t] = idx[t] + 1
                /\ pc'[t] = "submit_stock_select" /\ pc[t] = "submit_stock_select" =>
                      idx'[t] \in {idx[t], idx[t] + 1}
                /\ pc'[t] = "submit_clear" /\ pc[t] # "submit_clear" =>
                      /\ pc[t] \in {"submit_inventory_update", "submit_stock_select"}
                      /\ idx[t] = n]_vars

\* An order of two line items has gone through with no failure: both
\* products' stock and inventory records are lowered and the cart is empty.
C23_Witness ==
    /\ faults = 0
    /\ justPlaced(1)
    /\ Len(lastOrder.products) = 2
    /\ \A i \in 1..2 :
          LET id == lastOrder.products[i].id IN
          /\ stock[id] < before[1].stock[id]
          /\ inventory[id].stock = stock[id]
    /\ cart.products = <<>>

\* C24: every failure of a record-store write during add-to-cart, a cart
\* quantity or removal write, or a write of order finalization (order
\* insert, points update, stock update, inventory update, cart clear) ends
\* the operation with an error notification: the operation does not go on,
\* shows no success notification, and issues no further request.
C24_FailureIsReported ==
    [][\A t \in Tabs :
          (/\ faults' # faults
           /\ \/ handleAddToCart_insert(t)
              \/ handleAddToCart_update(t)
              \/ updateCartInDatabase(t)
              \/ handleSubmit(t)
              \/ handleSubmit_profileUpdate(t)
              \/ handleSubmit_stockUpdate(t)
              \/ handleSubmit_inventoryUpdate(t)
              \/ handleSubmit_clearCart(t)) =>
                /\ pc'[t] = "idle"
                /\ toasts' = {Toast("Error", 0)}]_vars

\* C25: product stock is changed only by order finalization (the products
\* update of a line item, which writes the clamped difference) and by the
\* vendor's stock edit (which writes the typed value): add-to-cart, cart
\* quantity update, item removal, wishlist add and remove, review submission,
\* sign-up and profile loading leave every product's stock unchanged.
C25_StockWriters ==
    [][stock' # stock =>
          \/ \E t \in Tabs :
                /\ pc[t] = "submit_stock_update"
                /\ pc'[t] = "submit_inventory_update"
                /\ stock' = [stock EXCEPT ![cartItems[t][idx[t]].id] = newStock[t]]
          \/ /\ vpc = "idle"
             /\ vpc' = "inventory"
             /\ stock' = [stock EXCEPT ![vProductId'] = vNewStock']]_vars

\* The customer has signed up, has product A in the cart and on the wishlist,
\* has reviewed it and has a profile, and the stock of A is what the shop
\* opened with.
C25_Witness ==
    /\ registered
    /\ profile.exists
    /\ cart.exists
    /\ quantityOf(cart.products, "A") = 1
    /\ "A" \in wishlist
    /\ Len(reviews) >= 1
    /\ orders = <<>>
    /\ vpc = "idle"
    /\ stock = InitialStock

\* C26: a finalization attempt that reports failure to the user ("Please try
\* again") has created no order record: when the handler has ended with the
\* error notification there are as many order records as when it started, so
\* a retry does not give a second order record for the same cart contents.
C26_FailureCreatesNoOrder ==
    \A t \in Tabs :
        (/\ before[t] # NoBefore
         /\ pc[t] = "idle"
         /\ toasts = {Toast("Error", 0)}) =>
            Len(orders) = before[t].orders

\* C27: when two order finalizations that contain product A with quantities
\* q1 and q2 have both completed, with no failed request and in whatever
\* order their stock reads and writes were answered, the stock of A is
\* max(0, s - q1 - q2), s being the stock before both.
C27_NoDecrementLost ==
    (/\ faults = 0
     /\ Len(orders) = 2
     /\ \A t \in Tabs : pc[t] \notin SubmitPcs) =>
        stock["A"] = clampStock(InitialStock["A"],
                                quantityOf(orders[1].products, "A")
                                  + quantityOf(orders[2].products, "A"))

\* C28: after a single finalization that reports success with "You earned N
\* loyalty points", nothing running beside it, the user's stored profile
\* holds the points it held before the finalization plus N; this includes
\* the user who had no profile record when checking out, whose points
\* before are 0.
C28_PointsStored ==
    \A t \in Tabs :
        justPlaced(t) =>
            \A x \in toasts :
                /\ profile.exists
                /\ profile.loyalty_points = before[t].loyalty_points + x.points

\* C29: whenever no stock update is in progress (no finalization is between
\* its products update and its inventory update, and the vendor's edit is
\* not between its two writes), every existing inventory record's stock
\* equals the stock of its product, also after one of the two writes failed.
C29_InventoryMatchesStock ==
    (/\ vpc = "idle"
     /\ \A t \in Tabs : pc[t] \notin {"submit_stock_update", "submit_inventory_update"}) =>
        \A p \in Products :
            inventory[p].exists => inventory[p].stock = stock[p]

\* C30: after updateQuantity or removeItem on the cart page has completed,
\* the item list the page shows equals the user's stored cart item list;
\* when the store write failed both are the list from before the edit.
C30_PageShowsStoredCart ==
    \A t \in Tabs :
        (pc[t] = "idle" /\ page[t] = "cart") => cartItems[t] = cart.products

====
